---- MODULE Spec2Model ----
(***************************************************************************)
(* The Python tutor chat application (src/app.py): the session state kept  *)
(* in st.session_state, and one run of main() split at its operations:     *)
(* init_session_state, update_settings, the "Clear chat" button, the       *)
(* suggestion chips, and the chat turn.                                    *)
(*                                                                         *)
(* Representation.                                                         *)
(*  - A Python str is the sequence of its lines (split at "\n"): "" is     *)
(*    <<"">>, "a\n\nb" is <<"a", "", "b">>.  Python's None is the          *)
(*    sequence of no lines, <<>>, which no str is.                         *)
(*  - A temperature is an integer count of units of 5e-10, so that 1.0 is  *)
(*    2 * 10^9 and the epsilon 1e-9 of update_settings is 2 units.         *)
(***************************************************************************)
EXTENDS Integers, Sequences, FiniteSets, TLC

VARIABLES
    session_state,  \* st.session_state: key -> value, keys added by init_session_state
    pc,             \* position in main(): "main" (between runs), "sidebar", "clear", "chips", "chat"
    widgets,        \* main(): the sidebar widgets' values model, temperature, level, focus, style, socratic
    changed,        \* main(): changed = update_settings(...)
    clear_clicked,  \* main(): st.button("Clear chat")
    prompts,        \* main(): prompts = suggested_prompts(st.session_state.level)
    clicked,        \* main(): the chips i whose cols[i % 3].button(...) returned True
    user_input,     \* main(): user_input = st.chat_input(...)
    service,        \* what the OpenAI SDK did in this run's turn
    requests,       \* the arguments of every client.chat.completions.create call of this run
    reply           \* main(): reply

vars == <<session_state, pc, widgets, changed, clear_clicked, prompts, clicked, user_input, service, requests, reply>>

----------------------------------------------------------------------------
(* Bounds of the model *)

\* The conversation is not grown beyond this many messages.
MaxMessages == 4

\* At most this many suggestion chips report a click in one run of main().
MaxClicks == 1

\* Candidate temperatures lie within this many units around the default.
MaxNoise == 3

----------------------------------------------------------------------------
(* Configuration and literals of the source *)

None == <<>>

Str(line) == <<line>>

\* Python truthiness of `if user_input:`: None and "" are falsy.
Truthy(text) == text # None /\ text # Str("")

One == 2 * 1000000000

DEFAULT_MODEL == "gpt-4"

ALLOWED_MODELS == <<"gpt-4", "gpt-3.5-turbo">>

\* 0.3
DEFAULT_TEMPERATURE == 600000000

\* the slider's bounds 0.0 and 1.0, and its step 0.05
SLIDER_MIN == 0

SLIDER_MAX == One

SLIDER_STEP == 100000000

\* 1e-9
EPSILON == 2

LEVELS == <<"Beginner", "Intermediate", "Advanced">>

FOCUSES == <<"Fundamentals", "Data Structures", "Functions", "OOP", "File I/O", "Error Handling", "Testing", "Typing", "Performance">>

STYLES == <<"Explain, then example, then short exercise", "Example-first", "Exercise-first", "Debugging-focused">>

FALLBACK_REPLY == Str("I'm having trouble reaching the language model API. Please check your API key and try again.")

Range(seq) == {seq[i] : i \in DOMAIN seq}

Abs(x) == IF x < 0 THEN -x ELSE x

Message(role, content) == [role |-> role, content |-> content]

----------------------------------------------------------------------------
(* build_system_prompt *)

\* Mutant of Tone: the two tones exchanged.
Tone_exchanged(socratic) == IF socratic THEN "clear and direct with gentle guidance" ELSE "Socratic and probing while supportive"

Tone(socratic) == IF socratic THEN "Socratic and probing while supportive" ELSE "clear and direct with gentle guidance"

\* The position of the "- Tone: ..." line in the prompt.
ToneLine == 5

build_system_prompt(level, focus, style, socratic) ==
    << "You are a patient, expert Python tutor.",
       "- Teaching level: " \o level,
       "- Focus area: " \o focus,
       "- Teaching style: " \o style,
       "- Tone: " \o Tone(socratic),
       "",
       "Goals:",
       "1) Explain concepts step-by-step using simple language.",
       "2) Provide concise code examples using modern Python 3.12 when helpful.",
       "3) Encourage good practices (readability, PEP 8, clear naming, basic testing).",
       "4) Offer small exercises. Before revealing solutions, invite the learner to try first.",
       "5) When asked to review code, explain what it does, identify issues, and suggest improvements.",
       "6) Prefer standard library unless user requests external packages.",
       "",
       "Formatting:",
       "- Keep responses concise. Use bullet points and short code blocks where useful.",
       "- Provide example outputs when helpful.",
       "- Ask one clarifying or reflective question when appropriate to check understanding." >>

----------------------------------------------------------------------------
(* init_session_state *)

\* if key not in st.session_state: st.session_state[key] = value
SetDefault(ss, key, value) == IF key \in DOMAIN ss THEN ss ELSE ss @@ (key :> value)

\* Mutant of init_session_state: the default model is one the selectbox does
\* not offer.
init_session_state_unlisted_model(ss) ==
    LET s1 == SetDefault(ss, "messages", <<>>)
        s2 == SetDefault(s1, "model", "gpt-4o")
        s3 == SetDefault(s2, "temperature", DEFAULT_TEMPERATURE)
        s4 == SetDefault(s3, "level", "Beginner")
        s5 == SetDefault(s4, "focus", "Fundamentals")
        s6 == SetDefault(s5, "style", "Explain, then example, then short exercise")
        s7 == SetDefault(s6, "socratic", TRUE)
    IN  SetDefault(s7, "system_prompt_cache", Str(""))

\* Mutant of init_session_state: the messages are assigned without the
\* `not in` test, on every run.
init_session_state_resets_messages(ss) ==
    LET s1 == [k \in DOMAIN ss \cup {"messages"} |-> IF k = "messages" THEN <<>> ELSE ss[k]]
        s2 == SetDefault(s1, "model", DEFAULT_MODEL)
        s3 == SetDefault(s2, "temperature", DEFAULT_TEMPERATURE)
        s4 == SetDefault(s3, "level", "Beginner")
        s5 == SetDefault(s4, "focus", "Fundamentals")
        s6 == SetDefault(s5, "style", "Explain, then example, then short exercise")
        s7 == SetDefault(s6, "socratic", TRUE)
    IN  SetDefault(s7, "system_prompt_cache", Str(""))

init_session_state(ss) ==
    LET s1 == SetDefault(ss, "messages", <<>>)
        s2 == SetDefault(s1, "model", DEFAULT_MODEL)
        s3 == SetDefault(s2, "temperature", DEFAULT_TEMPERATURE)
        s4 == SetDefault(s3, "level", "Beginner")
        s5 == SetDefault(s4, "focus", "Fundamentals")
        s6 == SetDefault(s5, "style", "Explain, then example, then short exercise")
        s7 == SetDefault(s6, "socratic", TRUE)
    IN  SetDefault(s7, "system_prompt_cache", Str(""))

----------------------------------------------------------------------------
(* update_settings: the session state it leaves and the flag it returns *)

\* Mutant of update_settings: the flag is assigned from the last comparison
\* alone (changed = socratic != st.session_state.socratic).
update_settings_last_flag(ss, model, temperature, level, focus, style, socratic) ==
    LET s1 == IF model # ss.model THEN [ss EXCEPT !.model = model] ELSE ss
        s2 == IF Abs(temperature - s1.temperature) > EPSILON THEN [s1 EXCEPT !.temperature = temperature] ELSE s1
        s3 == [s2 EXCEPT !.level = level, !.focus = focus, !.style = style]
    IN  [state |-> [s3 EXCEPT !.socratic = socratic], changed |-> socratic # ss.socratic]

\* Mutant of update_settings: the comparisons chained with elif, so that only
\* the first field that differs is taken over.
update_settings_elif(ss, model, temperature, level, focus, style, socratic) ==
    LET state ==
            IF model # ss.model THEN [ss EXCEPT !.model = model]
            ELSE IF Abs(temperature - ss.temperature) > EPSILON THEN [ss EXCEPT !.temperature = temperature]
            ELSE IF level # ss.level THEN [ss EXCEPT !.level = level]
            ELSE IF focus # ss.focus THEN [ss EXCEPT !.focus = focus]
            ELSE IF style # ss.style THEN [ss EXCEPT !.style = style]
            ELSE IF socratic # ss.socratic THEN [ss EXCEPT !.socratic = socratic]
            ELSE ss
    IN  [state |-> state, changed |-> state # ss]

update_settings(ss, model, temperature, level, focus, style, socratic) ==
    LET c1 == model # ss.model
        s1 == IF c1 THEN [ss EXCEPT !.model = model] ELSE ss
        c2 == Abs(temperature - s1.temperature) > EPSILON
        s2 == IF c2 THEN [s1 EXCEPT !.temperature = temperature] ELSE s1
        c3 == level # s2.level
        s3 == IF c3 THEN [s2 EXCEPT !.level = level] ELSE s2
        c4 == focus # s3.focus
        s4 == IF c4 THEN [s3 EXCEPT !.focus = focus] ELSE s3
        c5 == style # s4.style
        s5 == IF c5 THEN [s4 EXCEPT !.style = style] ELSE s4
        c6 == socratic # s5.socratic
        s6 == IF c6 THEN [s5 EXCEPT !.socratic = socratic] ELSE s5
    IN  [state |-> s6, changed |-> c1 \/ c2 \/ c3 \/ c4 \/ c5 \/ c6]

----------------------------------------------------------------------------
(* clear_chat *)

\* Mutant of clear_chat: the cached prompt is reset instead of the messages.
clear_chat_wrong_key(ss) == [ss EXCEPT !.system_prompt_cache = Str("")]

\* Mutant of clear_chat: the whole session is put back to its defaults.
clear_chat_resets_session(ss) == init_session_state([k \in {} |-> None])

clear_chat(ss) == [ss EXCEPT !.messages = <<>>]

----------------------------------------------------------------------------
(* ensure_system_prompt: the prompt it returns and the session state it leaves *)

\* Mutant of ensure_system_prompt: a prompt already cached is reused.
ensure_system_prompt_cached(ss) ==
    IF ss.system_prompt_cache # Str("")
    THEN [prompt |-> ss.system_prompt_cache, state |-> ss]
    ELSE LET prompt == build_system_prompt(ss.level, ss.focus, ss.style, ss.socratic)
         IN  [prompt |-> prompt, state |-> [ss EXCEPT !.system_prompt_cache = prompt]]

ensure_system_prompt(ss) ==
    LET prompt == build_system_prompt(ss.level, ss.focus, ss.style, ss.socratic)
    IN  [prompt |-> prompt, state |-> [ss EXCEPT !.system_prompt_cache = prompt]]

----------------------------------------------------------------------------
(* generate_assistant_reply: the arguments it passes to                   *)
(* client.chat.completions.create                                          *)

\* Mutant of generate_assistant_reply: only the last message of the history
\* is sent after the system prompt (chat_history[-1:]).
generate_assistant_reply_last_only(model, system_prompt, chat_history, temperature) ==
    [model |-> model,
     messages |-> <<Message("system", system_prompt)>> \o SubSeq(chat_history, Len(chat_history), Len(chat_history)),
     temperature |-> temperature]

generate_assistant_reply(model, system_prompt, chat_history, temperature) ==
    [model |-> model,
     messages |-> <<Message("system", system_prompt)>> \o chat_history,
     temperature |-> temperature]

----------------------------------------------------------------------------
(* suggested_prompts *)

BASE_PROMPTS ==
    << "Explain list comprehensions with two small examples.",
       "Give me a short exercise on for-loops and range().",
       "What are common pitfalls with mutable default arguments?",
       "Show how to read and write a text file safely.",
       "Explain try/except/else/finally with a minimal example.",
       "How do I use virtual environments and why do they matter?" >>

LEVEL_PROMPTS(level) ==
    IF level = "Beginner"
    THEN << "What is the difference between a list and a tuple?",
            "Explain variables and types with simple examples." >>
    ELSE IF level = "Intermediate"
    THEN << "Demonstrate list vs dict iteration patterns and when to use each.",
            "Show how to write a small unit test using unittest." >>
    ELSE << "Explain decorators with a practical example.",
            "Show how to use type hints and mypy to improve code quality." >>

\* base[:n]
Take(seq, n) == SubSeq(seq, 1, IF Len(seq) < n THEN Len(seq) ELSE n)

\* Mutant of suggested_prompts: the last six entries are kept (base[-6:]).
suggested_prompts_last_six(level) ==
    LET all == BASE_PROMPTS \o LEVEL_PROMPTS(level)
    IN  SubSeq(all, Len(all) - 5, Len(all))

suggested_prompts(level) == Take(BASE_PROMPTS \o LEVEL_PROMPTS(level), 6)

----------------------------------------------------------------------------
(* The suggestion chips of main(): for i, p in enumerate(prompts), the     *)
(* chip whose button reports a click appends {"role": "user", "content": p}*)
(* (chips are numbered from 1 here, from 0 in the source)                  *)

\* Mutant of the chips loop: whichever chip is clicked, the last prompt of the
\* list is appended (the loop variable read after the loop).
RECURSIVE suggestion_chips_last_prompt(_, _, _, _)
suggestion_chips_last_prompt(ss, ps, clicks, i) ==
    IF i > Len(ps) THEN ss
    ELSE suggestion_chips_last_prompt(
             IF i \in clicks
             THEN [ss EXCEPT !.messages = Append(@, Message("user", Str(ps[Len(ps)])))]
             ELSE ss,
             ps, clicks, i + 1)

RECURSIVE suggestion_chips(_, _, _, _)
suggestion_chips(ss, ps, clicks, i) ==
    IF i > Len(ps) THEN ss
    ELSE suggestion_chips(
             IF i \in clicks
             THEN [ss EXCEPT !.messages = Append(@, Message("user", Str(ps[i])))]
             ELSE ss,
             ps, clicks, i + 1)

----------------------------------------------------------------------------
(* The chat turn of main(): `if user_input:` and its body.  svc is what    *)
(* the OpenAI SDK does when called: get_openai_client() raises             *)
(* ("client_raised"), client.chat.completions.create raises                *)
(* ("create_raised"), the response holds no choice, so that                *)
(* response.choices[0] raises ("no_choices"), or the response holds        *)
(* svc.content ("ok").  The turn yields the session state it leaves, the   *)
(* requests it issued and its reply.                                       *)

\* Mutant of chat_turn: an empty reply is not stored (if reply: append).
chat_turn_skips_empty_reply(ss, text, svc) ==
    IF ~Truthy(text) THEN [state |-> ss, requests |-> <<>>, reply |-> None]
    ELSE
    LET s1 == [ss EXCEPT !.messages = Append(@, Message("user", text))]
        has_client == svc.outcome # "client_raised"
        esp == ensure_system_prompt(s1)
        s2 == IF has_client THEN esp.state ELSE s1
        request == generate_assistant_reply(s2.model, esp.prompt, s2.messages, s2.temperature)
        answer == IF svc.outcome = "ok" THEN svc.content ELSE FALLBACK_REPLY
    IN  [state |-> IF Truthy(answer) THEN [s2 EXCEPT !.messages = Append(@, Message("assistant", answer))] ELSE s2,
         requests |-> IF has_client THEN <<request>> ELSE <<>>,
         reply |-> answer]

\* Mutant of chat_turn: get_openai_client() is called outside the try, so
\* that its exception ends the run after the user message is stored.
chat_turn_client_outside_try(ss, text, svc) ==
    IF ~Truthy(text) THEN [state |-> ss, requests |-> <<>>, reply |-> None]
    ELSE
    LET s1 == [ss EXCEPT !.messages = Append(@, Message("user", text))]
        esp == ensure_system_prompt(s1)
        request == generate_assistant_reply(s1.model, esp.prompt, s1.messages, s1.temperature)
        answer == IF svc.outcome = "ok" THEN svc.content ELSE FALLBACK_REPLY
    IN  IF svc.outcome = "client_raised"
        THEN [state |-> s1, requests |-> <<>>, reply |-> None]
        ELSE [state |-> [esp.state EXCEPT !.messages = Append(@, Message("assistant", answer))],
              requests |-> <<request>>,
              reply |-> answer]

\* Mutant of chat_turn: the system message is inserted into the stored list
\* (chat_history.insert(0, ...)) instead of a new list being built.
chat_turn_inserts_system(ss, text, svc) ==
    IF ~Truthy(text) THEN [state |-> ss, requests |-> <<>>, reply |-> None]
    ELSE
    LET s1 == [ss EXCEPT !.messages = Append(@, Message("user", text))]
        has_client == svc.outcome # "client_raised"
        esp == ensure_system_prompt(s1)
        request == generate_assistant_reply(s1.model, esp.prompt, s1.messages, s1.temperature)
        s2 == IF has_client THEN [esp.state EXCEPT !.messages = request.messages] ELSE s1
        answer == IF svc.outcome = "ok" THEN svc.content ELSE FALLBACK_REPLY
    IN  [state |-> [s2 EXCEPT !.messages = Append(@, Message("assistant", answer))],
         requests |-> IF has_client THEN <<request>> ELSE <<>>,
         reply |-> answer]

\* Mutant of chat_turn: a completion call that raises is tried once more
\* before the fallback is used.
chat_turn_retries(ss, text, svc) ==
    IF ~Truthy(text) THEN [state |-> ss, requests |-> <<>>, reply |-> None]
    ELSE
    LET s1 == [ss EXCEPT !.messages = Append(@, Message("user", text))]
        has_client == svc.outcome # "client_raised"
        esp == ensure_system_prompt(s1)
        s2 == IF has_client THEN esp.state ELSE s1
        request == generate_assistant_reply(s2.model, esp.prompt, s2.messages, s2.temperature)
        answer == IF svc.outcome = "ok" THEN svc.content ELSE FALLBACK_REPLY
    IN  [state |-> [s2 EXCEPT !.messages = Append(@, Message("assistant", answer))],
         requests |-> IF ~has_client THEN <<>>
                      ELSE IF svc.outcome = "create_raised" THEN <<request, request>>
                      ELSE <<request>>,
         reply |-> answer]

chat_turn(ss, text, svc) ==
    IF ~Truthy(text) THEN [state |-> ss, requests |-> <<>>, reply |-> None]
    ELSE
    LET s1 == [ss EXCEPT !.messages = Append(@, Message("user", text))]
        has_client == svc.outcome # "client_raised"
        esp == ensure_system_prompt(s1)
        s2 == IF has_client THEN esp.state ELSE s1
        request == generate_assistant_reply(s2.model, esp.prompt, s2.messages, s2.temperature)
        answer == IF svc.outcome = "ok" THEN svc.content ELSE FALLBACK_REPLY
    IN  [state |-> [s2 EXCEPT !.messages = Append(@, Message("assistant", answer))],
         requests |-> IF has_client THEN <<request>> ELSE <<>>,
         reply |-> answer]

----------------------------------------------------------------------------
(* Inputs *)

Settings(models, temperatures, levels, focuses, styles) ==
    [model : models, temperature : temperatures, level : levels,
     focus : focuses, style : styles, socratic : BOOLEAN]

\* The widgets before the user touches them show the defaults.
DefaultWidgets ==
    [model |-> DEFAULT_MODEL, temperature |-> DEFAULT_TEMPERATURE, level |-> "Beginner",
     focus |-> "Fundamentals", style |-> "Explain, then example, then short exercise",
     socratic |-> TRUE]

\* Temperatures the slider may hand over: a few of its steps, and values a few
\* units off the default (floating-point noise), all within [0.0, 1.0].
NoisyTemperatures ==
    {t \in {DEFAULT_TEMPERATURE + d : d \in (0 - MaxNoise)..MaxNoise}
           \cup {SLIDER_MIN, DEFAULT_TEMPERATURE + SLIDER_STEP, SLIDER_MAX} :
        SLIDER_MIN <= t /\ t <= SLIDER_MAX}

Idle == [outcome |-> "idle", content |-> None]

Failures == {[outcome |-> o, content |-> None] : o \in {"client_raised", "create_raised", "no_choices"}}

Successes(contents) == {[outcome |-> "ok", content |-> c] : c \in contents}

----------------------------------------------------------------------------
(* The state machine: one run of main() after the other *)

Init ==
    /\ session_state = [k \in {} |-> None]
    /\ pc = "main"
    /\ widgets = DefaultWidgets
    /\ changed = FALSE
    /\ clear_clicked = FALSE
    /\ prompts = <<>>
    /\ clicked = {}
    /\ user_input = None
    /\ service = Idle
    /\ requests = <<>>
    /\ reply = None

\* main() is entered: init_session_state()
MainStart ==
    /\ pc = "main"
    /\ pc' = "sidebar"
    /\ session_state' = init_session_state(session_state)
    /\ changed' = FALSE
    /\ clear_clicked' = FALSE
    /\ prompts' = <<>>
    /\ clicked' = {}
    /\ user_input' = None
    /\ service' = Idle
    /\ requests' = <<>>
    /\ reply' = None
    /\ UNCHANGED widgets

\* the sidebar's widgets are read and update_settings is called with their values
Sidebar(candidates) ==
    /\ pc = "sidebar"
    /\ pc' = "clear"
    /\ \E w \in candidates :
         LET u == update_settings(session_state, w.model, w.temperature, w.level, w.focus, w.style, w.socratic)
         IN  /\ widgets' = w
             /\ session_state' = u.state
             /\ changed' = u.changed
    /\ UNCHANGED <<clear_clicked, prompts, clicked, user_input, service, requests, reply>>

\* if st.button("Clear chat"): clear_chat()
ClearButton(buttons) ==
    /\ pc = "clear"
    /\ pc' = "chips"
    /\ \E b \in buttons :
         /\ clear_clicked' = b
         /\ session_state' = IF b THEN clear_chat(session_state) ELSE session_state
    /\ UNCHANGED <<widgets, changed, prompts, clicked, user_input, service, requests, reply>>

\* the suggestion chips
Chips(clickable) ==
    /\ pc = "chips"
    /\ pc' = "chat"
    /\ prompts' = suggested_prompts(session_state.level)
    /\ \E clicks \in SUBSET (clickable \cap DOMAIN prompts') :
         /\ Cardinality(clicks) <= MaxClicks
         /\ Len(session_state.messages) + Cardinality(clicks) <= MaxMessages
         /\ clicked' = clicks
         /\ session_state' = suggestion_chips(session_state, prompts', clicks, 1)
    /\ UNCHANGED <<widgets, changed, clear_clicked, user_input, service, requests, reply>>

\* the chat input and the turn it starts
Chat(texts, outcomes) ==
    /\ pc = "chat"
    /\ pc' = "main"
    /\ \E text \in texts :
         /\ Truthy(text) => Len(session_state.messages) + 2 <= MaxMessages
         /\ \E svc \in IF Truthy(text) THEN outcomes ELSE {Idle} :
              LET t == chat_turn(session_state, text, svc)
              IN  /\ user_input' = text
                  /\ service' = svc
                  /\ session_state' = t.state
                  /\ requests' = t.requests
                  /\ reply' = t.reply
    /\ UNCHANGED <<widgets, changed, clear_clicked, prompts, clicked>>

----------------------------------------------------------------------------
(* Spec: sessions with rich conversations (typed texts, blank texts,       *)
(* suggestion chips, empty replies, every failure of the service); the     *)
(* model, temperature, level and socratic flag range over a few values     *)

ChatSettings ==
    Settings(Range(ALLOWED_MODELS), {DEFAULT_TEMPERATURE, DEFAULT_TEMPERATURE + SLIDER_STEP},
             {"Beginner", "Advanced"}, {"Fundamentals"}, {STYLES[1]})

ChatChips == {1, 6}

ChatTexts == {None, Str(""), Str("   "), Str("What is a list?")}

ChatContents == {Str("A list is..."), Str("")}

SidebarStep == Sidebar(ChatSettings)

ClearStep == ClearButton(BOOLEAN)

ChipsStep == Chips(ChatChips)

ChatStep == Chat(ChatTexts, Successes(ChatContents) \cup Failures)

Next == MainStart \/ SidebarStep \/ ClearStep \/ ChipsStep \/ ChatStep

Spec == Init /\ [][Next]_vars

----------------------------------------------------------------------------
(* SettingsSpec: sessions in which the sidebar hands over every            *)
(* combination of both models, temperatures a few units apart, every       *)
(* level, two focus areas, two styles and the flag; nothing is typed       *)

AllSettings ==
    Settings(Range(ALLOWED_MODELS), NoisyTemperatures, Range(LEVELS),
             {FOCUSES[1], FOCUSES[4]}, {STYLES[1], STYLES[2]})

SettingsSidebarStep == Sidebar(AllSettings)

SettingsChipsStep == Chips({})

SettingsChatStep == Chat({None, Str("")}, {})

SettingsNext == MainStart \/ SettingsSidebarStep \/ ClearStep \/ SettingsChipsStep \/ SettingsChatStep

SettingsSpec == Init /\ [][SettingsNext]_vars

----------------------------------------------------------------------------
(* PromptSpec: sessions of plain turns (one text, one reply or a failure)  *)
(* in which every field the prompt is built from ranges over several       *)
(* values, beside the model and the temperature                            *)

PromptSettings ==
    Settings(Range(ALLOWED_MODELS), {DEFAULT_TEMPERATURE, DEFAULT_TEMPERATURE + SLIDER_STEP},
             Range(LEVELS), {FOCUSES[1], FOCUSES[4]}, {STYLES[1], STYLES[2]})

PromptSidebarStep == Sidebar(PromptSettings)

PromptChatStep == Chat({None, Str("What is a list?")}, Successes({Str("A list is...")}) \cup Failures)

PromptNext == MainStart \/ PromptSidebarStep \/ ClearStep \/ SettingsChipsStep \/ PromptChatStep

PromptSpec == Init /\ [][PromptNext]_vars

----------------------------------------------------------------------------
(* The claims *)

\* the stored Conversation
Conversation == session_state.messages

SubmitSucceeds == pc = "chat" /\ Truthy(user_input') /\ service'.outcome = "ok"

SubmitFails == pc = "chat" /\ Truthy(user_input') /\ service'.outcome \in {"client_raised", "create_raised", "no_choices"}

TurnEnded == pc = "main" /\ Truthy(user_input)

\* C1: a submit of a non-empty text t whose completion call succeeds with
\* content r leaves the conversation equal to the prior conversation followed
\* by exactly {user, t} then {assistant, r}.
C1_SubmitSuccessAppendsPair ==
    [][SubmitSucceeds =>
          session_state'.messages =
              Conversation \o <<Message("user", user_input'), Message("assistant", service'.content)>>]_vars

C1_Witness ==
    /\ TurnEnded
    /\ service.outcome = "ok"
    /\ Len(Conversation) = 4
    /\ Conversation[3] = Message("user", user_input)
    /\ Conversation[4] = Message("assistant", service.content)

\* C2: a submit of a non-empty text t in which the client creation or the
\* completion call raises leaves the conversation equal to the prior
\* conversation followed by {user, t} then {assistant, fallback}; the run of
\* main() goes on to its end with the fallback as its reply.
C2_SubmitFailureAppendsFallback ==
    [][SubmitFails =>
          /\ session_state'.messages =
                 Conversation \o <<Message("user", user_input'), Message("assistant", FALLBACK_REPLY)>>
          /\ reply' = FALLBACK_REPLY
          /\ pc' = "main"]_vars

C2_Witness ==
    /\ TurnEnded
    /\ service.outcome = "client_raised"
    /\ Len(Conversation) = 4
    /\ Conversation[3] = Message("user", user_input)
    /\ Conversation[4] = Message("assistant", FALLBACK_REPLY)

\* A text that is empty or holds nothing but whitespace (of the texts typed
\* in this model).
IsBlank(text) == text # None /\ \A i \in DOMAIN text : text[i] \in {"", "   "}

\* C3: a submit whose text is empty or only whitespace changes nothing in the
\* conversation and sends no request.
C3_BlankSubmitIsNoOp ==
    [][(pc = "chat" /\ IsBlank(user_input')) =>
          (session_state'.messages = Conversation /\ requests' = <<>>)]_vars

SettingFields == {"model", "temperature", "level", "focus", "style", "socratic"}

\* C4: update_settings returns true if and only if one of model, level, focus,
\* style, socratic differs from the current value or the temperature differs
\* from the current one by more than 1e-9.
C4_ChangedIffSomeFieldDiffers ==
    [][pc = "sidebar" =>
          (changed' <=>
              \/ \E f \in SettingFields \ {"temperature"} : widgets'[f] # session_state[f]
              \/ Abs(widgets'.temperature - session_state.temperature) > EPSILON)]_vars

C4_Witness ==
    /\ pc = "clear"
    /\ ~changed
    /\ widgets.temperature # session_state.temperature

\* C5, as claimed: after update_settings returns, the session holds exactly
\* the candidate's value in every field.
C5_StoreEqualsCandidate ==
    pc = "clear" => \A f \in SettingFields : session_state[f] = widgets[f]

\* C5, amended: after update_settings returns, model, level, focus, style and
\* socratic hold exactly the candidate's values; the temperature holds the
\* candidate's value when that differed from the current one by more than
\* 1e-9, and otherwise keeps its value, which is within 1e-9 of the
\* candidate's.
C5_StoreEqualsCandidateUpToEpsilon ==
    [][pc = "sidebar" =>
          /\ \A f \in SettingFields \ {"temperature"} : session_state'[f] = widgets'[f]
          /\ session_state'.temperature =
                 IF Abs(widgets'.temperature - session_state.temperature) > EPSILON
                 THEN widgets'.temperature ELSE session_state.temperature
          /\ Abs(session_state'.temperature - widgets'.temperature) <= EPSILON]_vars

C5_Witness ==
    /\ pc = "clear"
    /\ changed
    /\ session_state.temperature # widgets.temperature
    /\ Abs(session_state.temperature - widgets.temperature) <= EPSILON

\* C6: no message of the stored conversation has the role system; the system
\* prompt is the first message of the request only, and the stored
\* conversation is what the request carried after it, followed by the reply.
C6_NoSystemMessageStored ==
    DOMAIN session_state # {} =>
        /\ \A i \in DOMAIN Conversation : Conversation[i].role # "system"
        /\ \A k \in DOMAIN requests :
              /\ Head(requests[k].messages).role = "system"
              /\ Conversation = Tail(requests[k].messages) \o <<Message("assistant", reply)>>

C6_Witness ==
    /\ TurnEnded
    /\ requests # <<>>
    /\ changed
    /\ clicked # {}
    /\ Len(Conversation) = 4

\* C7: the request a submit sends is one system message holding the prompt
\* built from the settings as they are at that moment, followed by the whole
\* stored conversation including the user message just appended, with the
\* model and the temperature of the settings.
C7_RequestFromCurrentSettings ==
    [][(pc = "chat" /\ requests' # <<>>) =>
          requests' =
              << [model |-> session_state.model,
                  messages |->
                      <<Message("system",
                                build_system_prompt(session_state.level, session_state.focus,
                                                    session_state.style, session_state.socratic))>>
                      \o Conversation \o <<Message("user", user_input')>>,
                  temperature |-> session_state.temperature] >>]_vars

C7_Witness ==
    /\ TurnEnded
    /\ changed
    /\ Len(requests) = 1
    /\ Len(requests[1].messages) = 4
    /\ requests[1].model = session_state.model
    /\ ~session_state.socratic
    /\ Head(requests[1].messages).content = build_system_prompt(session_state.level, session_state.focus, session_state.style, FALSE)

\* C8: clear leaves the conversation empty, and a successful submit of t that
\* follows it yields exactly [{user, t}, {assistant, reply}].
C8_ClearThenSubmitStartsAfresh ==
    [][/\ (pc = "clear" /\ clear_clicked') => session_state'.messages = <<>>
       /\ (SubmitSucceeds /\ (Conversation = <<>> \/ (clear_clicked /\ clicked = {}))) =>
              session_state'.messages = <<Message("user", user_input'), Message("assistant", service'.content)>>]_vars

C8_Witness ==
    /\ TurnEnded
    /\ clear_clicked
    /\ clicked = {}
    /\ service.outcome = "ok"
    /\ Conversation = <<Message("user", user_input), Message("assistant", service.content)>>

\* C9: for every level, suggested_prompts(level) is exactly the six base
\* prompts in their order; none of the prompts added for a level is in it.
C9_SuggestionsAreTheBasePrompts ==
    prompts # <<>> =>
        /\ Len(prompts) = 6
        /\ prompts = BASE_PROMPTS
        /\ \A l \in Range(LEVELS) : Range(LEVEL_PROMPTS(l)) \cap Range(prompts) = {}

C9_Witness ==
    /\ pc = "chat"
    /\ session_state.level = "Intermediate"
    /\ Len(prompts) = 6

\* C10: the prompt of a request is a function of level, focus, style and
\* socratic alone, and the prompt for the same level, focus and style with
\* the flag flipped is the same in every line but the tone line, which is
\* "Socratic and probing while supportive" when socratic is true and "clear
\* and direct with gentle guidance" otherwise.
C10_PromptDependsOnFourFieldsAndToneOnFlag ==
    \A k \in DOMAIN requests :
        LET here == Head(requests[k].messages).content
            flipped == build_system_prompt(session_state.level, session_state.focus,
                                           session_state.style, ~session_state.socratic)
            tone(flag) == IF flag THEN "- Tone: Socratic and probing while supportive"
                                  ELSE "- Tone: clear and direct with gentle guidance"
        IN  /\ here = build_system_prompt(session_state.level, session_state.focus,
                                          session_state.style, session_state.socratic)
            /\ Len(here) = Len(flipped)
            /\ \A i \in DOMAIN here : i # ToneLine => here[i] = flipped[i]
            /\ here[ToneLine] = tone(session_state.socratic)
            /\ flipped[ToneLine] = tone(~session_state.socratic)

C10_Witness ==
    /\ TurnEnded
    /\ requests # <<>>
    /\ ~session_state.socratic
    /\ session_state.model = "gpt-3.5-turbo"
    /\ session_state.focus = "OOP"
    /\ session_state.system_prompt_cache = Head(requests[1].messages).content

Initialized == DOMAIN session_state # {}

IsPrefix(short, long) == Len(short) <= Len(long) /\ SubSeq(long, 1, Len(short)) = short

\* C12: every step other than a click on "Clear chat" (initialization run
\* again, a settings update, the chips, a submit whether it succeeds, fails
\* or is empty) leaves the previous conversation as a prefix of the new one.
C12_ConversationOnlyGrowsAtTheEnd ==
    [][(Initialized /\ ~(pc = "clear" /\ clear_clicked')) =>
          IsPrefix(Conversation, session_state'.messages)]_vars

C12_Witness ==
    /\ TurnEnded
    /\ ~clear_clicked
    /\ changed
    /\ clicked # {}
    /\ service.outcome = "no_choices"
    /\ Len(Conversation) = 4
    /\ Conversation[1].role = "user"
    /\ Conversation[2].role = "user"

\* C13: the settings change in update_settings alone: every other step of an
\* initialized session (initialization run again, clear, chips, submit) leaves
\* model, temperature, level, focus, style and socratic as they are, and the
\* initialization of a session that holds nothing yet sets the defaults
\* gpt-4, 0.3, Beginner, Fundamentals, the explain-example-exercise style, true.
C13_SettingsChangeOnlyInUpdate ==
    [][/\ (Initialized /\ pc # "sidebar") =>
              \A f \in SettingFields : session_state'[f] = session_state[f]
       /\ ~Initialized =>
              /\ session_state'.model = "gpt-4"
              /\ session_state'.temperature = 3 * (SLIDER_MAX \div 10)
              /\ session_state'.level = "Beginner"
              /\ session_state'.focus = "Fundamentals"
              /\ session_state'.style = "Explain, then example, then short exercise"
              /\ session_state'.socratic = TRUE]_vars

C13_Witness ==
    /\ TurnEnded
    /\ ~changed
    /\ clear_clicked
    /\ clicked # {}
    /\ service.outcome = "create_raised"
    /\ session_state.model = "gpt-3.5-turbo"
    /\ session_state.temperature # DEFAULT_TEMPERATURE
    /\ session_state.level = "Advanced"
    /\ ~session_state.socratic

\* C14, as claimed: each non-empty submission issues exactly one request.
C14_ExactlyOneRequestPerSubmission ==
    TurnEnded => Len(requests) = 1

\* C14, amended: each non-empty submission issues at most one request:
\* exactly one when the client was created, none when creating the client
\* raised; a failed submission issues no further request and ends with the
\* fallback message appended.
C14_AtMostOneRequestPerSubmission ==
    TurnEnded =>
        /\ Len(requests) = (IF service.outcome = "client_raised" THEN 0 ELSE 1)
        /\ service.outcome # "ok" =>
              /\ reply = FALLBACK_REPLY
              /\ Conversation[Len(Conversation)] = Message("assistant", FALLBACK_REPLY)
              /\ Conversation[Len(Conversation) - 1] = Message("user", user_input)

C14_Witness ==
    /\ TurnEnded
    /\ service.outcome = "create_raised"
    /\ Len(requests) = 1
    /\ Len(Conversation) = 2
    /\ Conversation[2] = Message("assistant", FALLBACK_REPLY)

\* C15: every message of the stored conversation has a non-empty content,
\* whatever content the service returns.
C15_EveryMessageHasContent ==
    Initialized => \A i \in DOMAIN Conversation : Truthy(Conversation[i].content)

\* the conversation ends with a turn that failed: a user message and the fallback
EndsWithFailedTurn(conversation) ==
    /\ Len(conversation) >= 2
    /\ conversation[Len(conversation) - 1].role = "user"
    /\ conversation[Len(conversation)] = Message("assistant", FALLBACK_REPLY)

\* C16: a submit that follows a turn ended with the fallback message and
\* succeeds sends one request whose history holds the earlier user message
\* and the fallback in their order, and appends its own user and assistant
\* messages after them.
C16_SubmitAfterFailure ==
    [][(SubmitSucceeds /\ EndsWithFailedTurn(Conversation)) =>
          /\ Len(requests') = 1
          /\ Tail(requests'[1].messages) = Conversation \o <<Message("user", user_input')>>
          /\ session_state'.messages =
                 Conversation \o <<Message("user", user_input'), Message("assistant", service'.content)>>]_vars

C16_Witness ==
    /\ TurnEnded
    /\ service.outcome = "ok"
    /\ Len(Conversation) = 4
    /\ EndsWithFailedTurn(SubSeq(Conversation, 1, 2))
    /\ requests[1].messages[2] = Conversation[1]
    /\ requests[1].messages[3] = Message("assistant", FALLBACK_REPLY)
    /\ Conversation[4] = Message("assistant", service.content)

\* C17: a click on one suggestion chip appends exactly one message, {user,
\* the chip's text}, sends no request and sets no reply; the conversation may
\* then hold user messages in a row, and the request of the next submit
\* carries the unanswered user message in its history.
C17_ChipAppendsOneUserMessage ==
    [][/\ pc = "chips" =>
              /\ Len(session_state'.messages) = Len(Conversation) + Cardinality(clicked')
              /\ \A i \in clicked' :
                    Cardinality(clicked') = 1 =>
                        session_state'.messages = Append(Conversation, Message("user", Str(prompts'[i])))
              /\ requests' = <<>>
              /\ reply' = None
       /\ (pc = "chat" /\ clicked # {}) =>
              /\ Conversation # <<>>
              /\ Conversation[Len(Conversation)].role = "user"
       /\ (pc = "chat" /\ requests' # <<>> /\ Conversation # <<>> /\ Conversation[Len(Conversation)].role = "user") =>
              Tail(requests'[1].messages) = Conversation \o <<Message("user", user_input')>>]_vars

C17_Witness ==
    /\ TurnEnded
    /\ clicked = {1}
    /\ Len(requests) = 1
    /\ Len(Conversation) = 4
    /\ Conversation[1].role = "user"
    /\ Conversation[2] = Message("user", Str(prompts[1]))
    /\ Conversation[3] = Message("user", user_input)
    /\ requests[1].messages[3] = Conversation[2]

====
